---- MODULE Spec2Model ----
(***************************************************************************)
(* Model of src/src/http_client/http_client.py: the fluent HttpSession     *)
(* builder over HttpOptions and the synchronous / asynchronous            *)
(* retry-and-dispatch pipeline (HttpSession.request / arequest).           *)
(*                                                                         *)
(* Python values are records [t |-> type name, s |-> repr]; an Optional    *)
(* field is the empty set (None) or a singleton set; a dict is a function  *)
(* from its keys; a dict that a caller passes in is the sequence of its    *)
(* items, in insertion order.                                              *)
(***************************************************************************)
EXTENDS Integers, Sequences, FiniteSets, TLC

VARIABLES
    options,     \* session -> HttpOptions (HttpSession._options)
    heap,        \* dict object -> contents, for the dicts handed to add_json
    prev,        \* options of the session before the last builder call
    last,        \* the last builder call: session, method, arguments, raised
    nCalls,      \* number of builder calls made so far
    called,      \* the builder methods called so far on each session
    pc,          \* position of request()/arequest() in its retry loop
    mode,        \* "sync" (request) or "async" (arequest)
    i,           \* loop index of the current attempt
    attempts,    \* local max_retries of request(): the range of the loop
    is_created,  \* local is_created of arequest(): _ensure_client_build()
    client,      \* HttpSession._client: "none", "open" or "closed"
    scoped,      \* inside an "async with session:" block
    calls,       \* transport calls issued by the current request
    sleeps,      \* retry sleeps completed by the current request
    n5xx,        \* responses with status >= 500 received by the request
    nExc,        \* retryable failures raised to the current request
    lastOut,     \* the outcome of the latest transport call
    outcome,     \* what the request gave its caller
    reqs,        \* requests started on the session
    method,      \* the HTTP method of the current request
    params,      \* local params of request(): the assembled call parameters
    logged,      \* the parameter snapshot the request logged, if it did
    defaults,    \* HttpSession.defaults (HttpDefaults of the HttpClient)
    resp,        \* an HttpResponse and the json() calls made on it
    budget,      \* builder calls the caller makes in one behaviour
    tr           \* the calls of functions wrapped by instrument(), and their spans

bvars == <<options, heap, prev, last, nCalls, called>>
avars == <<method, params, logged>>
evars == <<defaults, resp, budget, tr>>
rvars == <<pc, mode, i, attempts, is_created, client, scoped, calls, sleeps,
           n5xx, nExc, lastOut, outcome, reqs, method, params, logged,
           defaults, resp, budget, tr>>
vars == <<options, heap, prev, last, nCalls, called, pc, mode, i, attempts,
          is_created, client, scoped, calls, sleeps, n5xx, nExc, lastOut,
          outcome, reqs, method, params, logged, defaults, resp, budget, tr>>

----------------------------------------------------------------------------
(* Bounds *)

MaxCalls == 2        \* builder calls in one chain
MaxRetries == 5      \* largest max_retries given to retry()
MaxRequests == 2     \* requests started on one session
MaxSlashes == 2      \* slashes after a base URL and before a path
MaxAsmCalls == 3     \* builder calls before a request is assembled

----------------------------------------------------------------------------
(* Python values *)

None == {}
Some(x) == {x}
The(o) == CHOOSE x \in o : TRUE

PyNone == [t |-> "NoneType", s |-> "None"]
Str(s) == [t |-> "str", s |-> s]
PyInt(s) == [t |-> "int", s |-> s]
PyList == [t |-> "list", s |-> "[1]"]
PyFile(s) == [t |-> "file", s |-> s]

EmptyDict == [n \in {} |-> PyNone]

\* json.dumps(value): the JSON text of the value, a str
JsonDumps(value) == [t |-> "str", s |-> value.s]

----------------------------------------------------------------------------
(* HttpOptions and HttpClient.create *)

Sessions == {"s1", "s2"}
\* a str that the code inspects is the sequence of its characters
Url == <<"h", "t", "t", "p", "s", ":", "/", "/", "h", "/">>

\* dataclass HttpOptions, as built by HttpOptions()
HttpOptions ==
    [url |-> None, verbose |-> None, timeout |-> None, max_retries |-> None,
     retry_interval |-> None, query |-> None, content |-> None,
     form |-> None, json |-> None, files |-> None, headers |-> None,
     cookies |-> None, redirects |-> TRUE, verify |-> TRUE]

\* HttpSession.__init__: the options with the url set
HttpSessionInit(url) == [HttpOptions EXCEPT !.url = Some(url)]

MapFields == {"headers", "cookies", "query", "form", "files"}

\* getattr(self._options, key) is falsy: None or an empty dict
Falsy(field) == field = None \/ The(field) = EmptyDict

SetOptionsDictValueReset(o, key, name, value) ==
    [o EXCEPT ![key] = Some([n \in {name} |-> value])]

\* HttpSession._set_options_dict_value
SetOptionsDictValue(o, key, name, value) ==
    LET cur == IF Falsy(o[key]) THEN EmptyDict ELSE The(o[key])
    IN  [o EXCEPT ![key] =
            Some([n \in (DOMAIN cur) \cup {name} |->
                     IF n = name THEN value ELSE cur[n]])]

AddNameValueNoNameCheck(o, key, name, value) ==
    IF value = PyNone
    THEN o
    ELSE SetOptionsDictValue(o, key, name, value)

\* HttpSession.add_header / add_cookie: the options after the call
AddNameValue(o, key, name, value) ==
    IF name = "" \/ value = PyNone
    THEN o
    ELSE SetOptionsDictValue(o, key, name, value)

AddFileIntoForm(o, name, file) ==
    IF file = PyNone
    THEN o
    ELSE SetOptionsDictValue(o, "form", name, file)

\* HttpSession.add_file
AddFile(o, name, file) ==
    IF file = PyNone
    THEN o
    ELSE SetOptionsDictValue(o, "files", name, file)

RECURSIVE AddHeadersLoop(_, _)
\* HttpSession.add_headers: the loop over headers.items()
AddHeadersLoop(o, items) ==
    IF items = <<>>
    THEN o
    ELSE AddHeadersLoop(
             SetOptionsDictValue(o, "headers", Head(items)[1], Head(items)[2]),
             Tail(items))

\* HttpSession.add_headers
AddHeaders(o, items) ==
    IF items = <<>> THEN o ELSE AddHeadersLoop(o, items)

\* HttpSession._add_item called with a str name (add_query(name, value))
AddItem(o, key, name, value) ==
    IF name = "" /\ value = PyNone
    THEN o
    ELSE IF value = PyNone
         THEN o
         ELSE SetOptionsDictValue(o, key, name,
                  IF value.t \in {"list", "dict"} THEN JsonDumps(value)
                  ELSE value)

RECURSIVE AddItemLoopDirect(_, _, _)
AddItemLoopDirect(o, key, items) ==
    IF items = <<>>
    THEN o
    ELSE AddItemLoopDirect(
             SetOptionsDictValue(o, key, Head(items)[1], Head(items)[2]),
             key, Tail(items))

RECURSIVE AddItemLoop(_, _, _)
\* HttpSession._add_item: the loop over name.items(), one add_query /
\* add_form call per entry
AddItemLoop(o, key, items) ==
    IF items = <<>>
    THEN o
    ELSE AddItemLoop(AddItem(o, key, Head(items)[1], Head(items)[2]),
                     key, Tail(items))

\* HttpSession._add_item called with a dict (add_query(data)), value = None
AddItemDict(o, key, items) ==
    IF items = <<>>
    THEN o
    ELSE AddItemLoop(o, key, items)

\* HttpSession.add_content
AddContent(o, content) ==
    IF content = PyNone \/ content.s = ""
    THEN o
    ELSE [o EXCEPT !.content = Some(content)]

\* the dict objects a caller hands to add_json, and their contents
Refs == {"d0", "d1", "d2"}
HeapInit ==
    [r \in Refs |->
        CASE r = "d0" -> EmptyDict
          [] r = "d1" -> [k \in {"a"} |-> PyInt("1")]
          [] r = "d2" -> [k \in {"a", "b"} |-> PyInt("2")]]

\* dict.update(other)
DictUpdate(d, other) ==
    [k \in (DOMAIN d) \cup (DOMAIN other) |->
        IF k \in DOMAIN other THEN other[k] ELSE d[k]]

\* the arguments given to add_json: None, a list, or one of the dicts
JsonArgs == {"None", "list"} \cup Refs

AddJsonResetThenRaise(o, h, arg) ==
    IF arg = "None" \/ (arg \in Refs /\ h[arg] = EmptyDict)
    THEN [o |-> o, h |-> h, raised |-> FALSE]
    ELSE IF arg \notin Refs
         THEN [o |-> [o EXCEPT !.json = None], h |-> h, raised |-> TRUE]
         ELSE IF o.json = None \/ h[The(o.json)] = EmptyDict
              THEN [o |-> [o EXCEPT !.json = Some(arg)], h |-> h,
                    raised |-> FALSE]
              ELSE [o |-> o,
                    h |-> [h EXCEPT ![The(o.json)] = DictUpdate(@, h[arg])],
                    raised |-> FALSE]

AddJsonReplace(o, h, arg) ==
    IF arg = "None" \/ (arg \in Refs /\ h[arg] = EmptyDict)
    THEN [o |-> o, h |-> h, raised |-> FALSE]
    ELSE IF arg \notin Refs
         THEN [o |-> o, h |-> h, raised |-> TRUE]
         ELSE [o |-> [o EXCEPT !.json = Some(arg)], h |-> h,
               raised |-> FALSE]

\* HttpSession.add_json: the options, the dict objects and whether a
\* TypeError was raised
AddJson(o, h, arg) ==
    IF arg = "None" \/ (arg \in Refs /\ h[arg] = EmptyDict)
    THEN [o |-> o, h |-> h, raised |-> FALSE]
    ELSE IF arg \notin Refs
         THEN [o |-> o, h |-> h, raised |-> TRUE]
         ELSE IF o.json = None \/ h[The(o.json)] = EmptyDict
              THEN [o |-> [o EXCEPT !.json = Some(arg)], h |-> h,
                    raised |-> FALSE]
              ELSE [o |-> o,
                    h |-> [h EXCEPT ![The(o.json)] = DictUpdate(@, h[arg])],
                    raised |-> FALSE]

\* the json mapping of the options: the contents of the dict it refers to
JsonOf(o, h) == IF o.json = None THEN None ELSE Some(h[The(o.json)])

----------------------------------------------------------------------------
(* HttpDefaults, request assembly and the logged snapshot *)

\* dataclass HttpDefaults, as HttpClient.__init__ builds it:
\* HttpDefaults(verbose=True), with the base_url the caller configured
HttpDefaults(base_url) ==
    [base_url |-> base_url, verbose |-> Some(TRUE), timeout |-> 30,
     retry_interval |-> 5]

\* str.startswith
StartsWith(str, prefix) ==
    /\ Len(str) >= Len(prefix)
    /\ SubSeq(str, 1, Len(prefix)) = prefix

RECURSIVE LStrip(_, _)
\* str.lstrip(chars)
LStrip(str, chars) ==
    IF str # <<>> /\ Head(str) \in chars
    THEN LStrip(Tail(str), chars)
    ELSE str

RECURSIVE RStrip(_, _)
\* the right half of str.strip(chars)
RStrip(str, chars) ==
    IF str # <<>> /\ str[Len(str)] \in chars
    THEN RStrip(SubSeq(str, 1, Len(str) - 1), chars)
    ELSE str

\* str.strip(chars)
Strip(str, chars) == LStrip(RStrip(str, chars), chars)

\* the characters of '/\\'
SlashChars == {"/", "\\"}

\* HttpSession._build_url
BuildUrl(o, d) ==
    IF StartsWith(The(o.url), <<"h", "t", "t", "p">>)
    THEN The(o.url)
    ELSE IF d.base_url # None /\ The(d.base_url) # <<>>
         THEN Strip(The(d.base_url), SlashChars) \o <<"/">>
                  \o LStrip(The(o.url), SlashChars)
         ELSE The(o.url)

BodyMethods == {"POST", "PUT", "PATCH"}
Methods == {"GET", "DELETE"} \cup BodyMethods

\* the dict of call parameters: a key that is absent is None, a key that is
\* present is the singleton of its value
NoParams ==
    [url |-> None, headers |-> None, cookies |-> None, timeout |-> None,
     follow_redirects |-> None, params |-> None, data |-> None,
     content |-> None, files |-> None, json |-> None]

BuildParamsFormAlways(o, h, d, http_method) ==
    [url |-> Some(BuildUrl(o, d)),
     headers |-> Some(IF Falsy(o.headers) THEN EmptyDict ELSE The(o.headers)),
     cookies |-> Some(o.cookies),
     timeout |-> Some(IF o.timeout = None \/ The(o.timeout) = 0
                      THEN d.timeout
                      ELSE The(o.timeout)),
     follow_redirects |-> Some(o.redirects),
     params |-> Some(IF Falsy(o.query) THEN EmptyDict ELSE The(o.query)),
     data |-> IF ~Falsy(o.form) THEN Some(The(o.form)) ELSE None,
     content |-> IF http_method \in BodyMethods /\ o.content # None
                 THEN Some(The(o.content))
                 ELSE None,
     files |-> IF http_method \in BodyMethods THEN Some(o.files) ELSE None,
     json |-> IF o.json # None /\ h[The(o.json)] # EmptyDict
              THEN Some(h[The(o.json)])
              ELSE None]

\* HttpSession._build_params
BuildParams(o, h, d, http_method) ==
    [url |-> Some(BuildUrl(o, d)),
     headers |-> Some(IF Falsy(o.headers) THEN EmptyDict ELSE The(o.headers)),
     cookies |-> Some(o.cookies),
     timeout |-> Some(IF o.timeout = None \/ The(o.timeout) = 0
                      THEN d.timeout
                      ELSE The(o.timeout)),
     follow_redirects |-> Some(o.redirects),
     params |-> Some(IF Falsy(o.query) THEN EmptyDict ELSE The(o.query)),
     data |-> IF http_method \in BodyMethods /\ ~Falsy(o.form)
              THEN Some(The(o.form))
              ELSE None,
     content |-> IF http_method \in BodyMethods /\ o.content # None
                 THEN Some(The(o.content))
                 ELSE None,
     files |-> IF http_method \in BodyMethods THEN Some(o.files) ELSE None,
     json |-> IF o.json # None /\ h[The(o.json)] # EmptyDict
              THEN Some(h[The(o.json)])
              ELSE None]

LowerIdentity(name) == name

\* str.lower() of a header name
Lower(name) ==
    CASE name = "Authorization" -> "authorization"
      [] name = "AUTHORIZATION" -> "authorization"
      [] OTHER -> name

\* copy.deepcopy(value) raises: an open file object cannot be copied
DeepCopyRaises(p) ==
    /\ p.files # None
    /\ The(p.files) # None
    /\ \E n \in DOMAIN The(The(p.files)) : The(The(p.files))[n].t = "file"

RedactHeadersInPlace(h) ==
    LET kept == {k \in DOMAIN h : Lower(k) # "authorization"}
    IN  [copy |-> [n \in kept |-> h[n]], value |-> [n \in kept |-> h[n]]]

\* the headers branch of _format_log_params: copy_value = deepcopy(value),
\* then copy_value.pop(h_key) for every name whose lower() is
\* 'authorization'; the copy, and the dict of the parameters afterwards
RedactHeaders(h) ==
    LET kept == {k \in DOMAIN h : Lower(k) # "authorization"}
    IN  [copy |-> [n \in kept |-> h[n]], value |-> h]

NoSnapshot ==
    [headers |-> None, cookies |-> None, timeout |-> None,
     follow_redirects |-> None, data |-> None, content |-> None,
     files |-> None, json |-> None]

\* HttpSession._format_log_params: whether it raised, the dict it
\* returned (keys absent from it are None), and the parameters it was
\* given as they are after the call
FormatLogParams(p) ==
    IF DeepCopyRaises(p)
    THEN [raised |-> TRUE, snap |-> NoSnapshot, params |-> p]
    ELSE [raised |-> FALSE,
          params |-> [p EXCEPT !.headers =
                         Some(RedactHeaders(The(p.headers)).value)],
          snap |->
            [headers |->
                IF The(p.headers) = EmptyDict
                THEN None
                ELSE Some(RedactHeaders(The(p.headers)).copy),
             cookies |-> IF Falsy(The(p.cookies)) THEN None
                         ELSE Some(The(The(p.cookies))),
             timeout |-> IF The(p.timeout) = 0 THEN None ELSE p.timeout,
             follow_redirects |-> IF The(p.follow_redirects) THEN Some(TRUE)
                                  ELSE None,
             data |-> p.data,
             content |-> p.content,
             files |-> IF p.files = None \/ Falsy(The(p.files)) THEN None
                       ELSE Some(The(The(p.files))),
             json |-> p.json]]

\* HttpSession._log_verbose: the message is built and emitted
LogEnabled(o, d) == o.verbose # Some(FALSE) /\ d.verbose = Some(TRUE)

\* the two _log_verbose calls that request() / arequest() make before the
\* loop: whether building the messages raised, the snapshot logged, and
\* the parameters afterwards
LogBeforeDispatch(o, d, p) ==
    IF ~LogEnabled(o, d)
    THEN [raised |-> FALSE, snap |-> None, params |-> p]
    ELSE IF FormatLogParams(p).raised
         THEN [raised |-> TRUE, snap |-> None,
               params |-> FormatLogParams(p).params]
         ELSE [raised |-> FALSE, snap |-> Some(FormatLogParams(p).snap),
               params |-> FormatLogParams(p).params]

----------------------------------------------------------------------------
(* Inputs of the builder calls *)

Names == {"", "x", "y"}
HeaderNames == Names \cup {"Authorization", "AUTHORIZATION"}
HeaderValues == {PyNone, Str(""), Str("a"), Str("b")}
FileNames == {"x", "y"}
FileValues == {PyNone, PyFile("f1"), PyFile("f2"), Str("a")}
ItemValues == {PyNone, PyInt("1"), PyInt("2"), PyList}
ContentValues == {PyNone, Str(""), Str("body")}
Timeouts == {0, 10}
RetryCounts == 0..MaxRetries
Intervals == {None, Some(3)}

\* dicts a caller passes to add_query / add_form / add_headers, as their
\* items in insertion order
Dicts == {"m0", "m1", "m2"}
ItemsOf(d) ==
    CASE d = "m0" -> <<>>
      [] d = "m1" -> << <<"x", PyInt("1")>> >>
      [] d = "m2" -> << <<"x", PyList>>, <<"y", PyNone>>, <<"", Str("b")>> >>

NoCall == [s |-> "", op |-> "", name |-> "", value |-> PyNone, arg |-> "",
           raised |-> FALSE, ret |-> ""]
NoPrev == [o |-> HttpOptions, h |-> HeapInit]

----------------------------------------------------------------------------
(* Initial state: HttpClient.create(url) for every session, no request *)

NoOutcome == [kind |-> "", status |-> 0, exc |-> ""]

\* an HttpResponse nobody has made yet
\* no wrapped function has been called: no frame, no span, and the
\* context holds no span
NoTrace == [frames |-> <<>>, ctx |-> <<>>, spans |-> <<>>, body |-> None,
            result |-> None]

NoResp == [status |-> 0, body |-> "", json_result |-> None, parses |-> 0,
           returned |-> None, jsons |-> 0]

\* HttpClient(defaults).create(url) for every session; the caller will make
\* at most b builder calls
InitWith(url, d, b) ==
    /\ options = [s \in Sessions |-> HttpSessionInit(url)]
    /\ defaults = d
    /\ budget = b
    /\ method = ""
    /\ params = NoParams
    /\ logged = None
    /\ resp = NoResp
    /\ tr = NoTrace
    /\ heap = HeapInit
    /\ prev = NoPrev
    /\ last = NoCall
    /\ nCalls = 0
    /\ called = [s \in Sessions |-> {}]
    /\ pc = "idle"
    /\ mode = "sync"
    /\ i = 0
    /\ attempts = 0
    /\ is_created = FALSE
    /\ client = "none"
    /\ scoped = FALSE
    /\ calls = 0
    /\ sleeps = 0
    /\ n5xx = 0
    /\ nExc = 0
    /\ lastOut = NoOutcome
    /\ outcome = NoOutcome
    /\ reqs = 0

Init == InitWith(Url, HttpDefaults(None), MaxCalls)

----------------------------------------------------------------------------
(* Builder calls.  Every call returns the session; Call records the call   *)
(* and installs the options it leaves behind.                              *)

Call(s, op, name, value, arg, o2, h2, raised) ==
    /\ nCalls < budget
    /\ pc \in {"idle", "done"}
    /\ nCalls' = nCalls + 1
    /\ prev' = [o |-> options[s], h |-> heap]
    /\ last' = [s |-> s, op |-> op, name |-> name, value |-> value,
                arg |-> arg, raised |-> raised,
                ret |-> IF raised THEN "" ELSE s]
    /\ called' = [called EXCEPT ![s] = @ \cup {op}]
    /\ options' = [options EXCEPT ![s] = o2]
    /\ heap' = h2

\* HttpSession.verbose
Verbose(s, v) ==
    /\ Call(s, "verbose", "", PyNone, "", [options[s] EXCEPT !.verbose = Some(v)],
            heap, FALSE)
    /\ UNCHANGED rvars

\* HttpSession.retry
Retry(s, max_retries, retry_interval) ==
    /\ Call(s, "retry", "", PyNone, "",
            [options[s] EXCEPT !.max_retries = Some(max_retries),
                               !.retry_interval = retry_interval],
            heap, FALSE)
    /\ UNCHANGED rvars

\* HttpSession.timeout
Timeout(s, t) ==
    /\ Call(s, "timeout", "", PyNone, "", [options[s] EXCEPT !.timeout = Some(t)],
            heap, FALSE)
    /\ UNCHANGED rvars

\* HttpSession.redirects
Redirects(s, allow) ==
    /\ Call(s, "redirects", "", PyNone, "",
            [options[s] EXCEPT !.redirects = allow], heap, FALSE)
    /\ UNCHANGED rvars

\* HttpSession.verify
Verify(s, v) ==
    /\ Call(s, "verify", "", PyNone, "", [options[s] EXCEPT !.verify = v],
            heap, FALSE)
    /\ UNCHANGED rvars

\* HttpSession.add_header
AddHeader(s, name, value) ==
    /\ Call(s, "add_header", name, value, "",
            AddNameValue(options[s], "headers", name, value), heap, FALSE)
    /\ UNCHANGED rvars

\* HttpSession.add_headers
AddHeadersCall(s, d) ==
    /\ Call(s, "add_headers", "", PyNone, d,
            AddHeaders(options[s], ItemsOf(d)), heap, FALSE)
    /\ UNCHANGED rvars

\* HttpSession.add_cookie
AddCookie(s, name, value) ==
    /\ Call(s, "add_cookie", name, value, "",
            AddNameValue(options[s], "cookies", name, value), heap, FALSE)
    /\ UNCHANGED rvars

\* HttpSession.add_query(name, value)
AddQuery(s, name, value) ==
    /\ Call(s, "add_query", name, value, "",
            AddItem(options[s], "query", name, value), heap, FALSE)
    /\ UNCHANGED rvars

\* HttpSession.add_query(data)
AddQueryDict(s, d) ==
    /\ Call(s, "add_query", "", PyNone, d,
            AddItemDict(options[s], "query", ItemsOf(d)), heap, FALSE)
    /\ UNCHANGED rvars

\* HttpSession.add_form(name, value)
AddForm(s, name, value) ==
    /\ Call(s, "add_form", name, value, "",
            AddItem(options[s], "form", name, value), heap, FALSE)
    /\ UNCHANGED rvars

\* HttpSession.add_form(data)
AddFormDict(s, d) ==
    /\ Call(s, "add_form", "", PyNone, d,
            AddItemDict(options[s], "form", ItemsOf(d)), heap, FALSE)
    /\ UNCHANGED rvars

\* HttpSession.add_file
AddFileCall(s, name, file) ==
    /\ Call(s, "add_file", name, file, "",
            AddFile(options[s], name, file), heap, FALSE)
    /\ UNCHANGED rvars

\* HttpSession.add_json
AddJsonCall(s, arg) ==
    LET r == AddJson(options[s], heap, arg)
    IN  /\ Call(s, "add_json", "", PyNone, arg, r.o, r.h, r.raised)
        /\ UNCHANGED rvars

\* HttpSession.add_content
AddContentCall(s, content) ==
    /\ Call(s, "add_content", "", content, "",
            AddContent(options[s], content), heap, FALSE)
    /\ UNCHANGED rvars

\* the builder calls on one session
Builder(s) ==
    \/ \E v \in BOOLEAN : Verbose(s, v)
    \/ \E m \in RetryCounts, ri \in Intervals : Retry(s, m, ri)
    \/ \E t \in Timeouts : Timeout(s, t)
    \/ \E a \in BOOLEAN : Redirects(s, a)
    \/ \E v \in BOOLEAN : Verify(s, v)
    \/ \E n \in HeaderNames, v \in HeaderValues : AddHeader(s, n, v)
    \/ \E d \in Dicts : AddHeadersCall(s, d)
    \/ \E n \in Names, v \in HeaderValues : AddCookie(s, n, v)
    \/ \E n \in Names, v \in ItemValues : AddQuery(s, n, v)
    \/ \E d \in Dicts : AddQueryDict(s, d)
    \/ \E n \in Names, v \in ItemValues : AddForm(s, n, v)
    \/ \E d \in Dicts : AddFormDict(s, d)
    \/ \E n \in FileNames, f \in FileValues : AddFileCall(s, n, f)
    \/ \E a \in JsonArgs : AddJsonCall(s, a)
    \/ \E c \in ContentValues : AddContentCall(s, c)

NextBuilder == Builder("s1")

SpecBuilder == Init /\ [][NextBuilder]_vars

----------------------------------------------------------------------------
(* The retry-and-dispatch pipeline of session "s1".                        *)

Statuses == {200, 301, 404, 500, 503}

\* the except clause of request()
RetryableSync ==
    {"asyncio.TimeoutError", "ConnectionRefusedError", "httpx.ConnectError",
     "httpx.ConnectTimeout", "httpx.ReadTimeout"}

\* the except clause of arequest()
RetryableAsync == RetryableSync \cup {"httpx.RemoteProtocolError"}

RetryableNoReadTimeoutInSync(m) ==
    IF m = "sync"
    THEN RetryableSync \ {"httpx.ReadTimeout"}
    ELSE RetryableAsync

\* the failures the except clause of the mode catches
Retryable(m) == IF m = "sync" THEN RetryableSync ELSE RetryableAsync

\* what the transport can raise: the kinds above and one kind that neither
\* except clause names
Failures == RetryableAsync \cup {"httpx.WriteError"}

Response(status) == [kind |-> "response", status |-> status, exc |-> ""]
Raised(exc) == [kind |-> "raise", status |-> 0, exc |-> exc]
ReturnedNone == [kind |-> "none", status |-> 0, exc |-> ""]

EffectiveAttemptsNoPlusOne(o) ==
    IF o.max_retries = None \/ The(o.max_retries) = 0
    THEN 1
    ELSE The(o.max_retries)

\* max_retries = 1 if not self._options.max_retries
\*               else self._options.max_retries + 1
EffectiveAttempts(o) ==
    IF o.max_retries = None \/ The(o.max_retries) = 0
    THEN 1
    ELSE The(o.max_retries) + 1

IsLastTimeNever(idx, max_retries) == FALSE

IsLastTimeOffByOne(idx, max_retries) == idx = max_retries

\* is_last_time = (i + 1) == max_retries
IsLastTime(idx, max_retries) == idx + 1 = max_retries

FormatResponseAlwaysRetry5xx(status, is_last_time) ==
    IF status >= 500
    THEN None
    ELSE Some(status)

FormatResponseRetry4xx(status, is_last_time) ==
    IF status >= 400 /\ ~is_last_time
    THEN None
    ELSE Some(status)

\* HttpSession._format_response: None, or the HttpResponse (its status_code)
FormatResponse(status, is_last_time) ==
    IF status >= 500 /\ ~is_last_time
    THEN None
    ELSE Some(status)

\* HttpSession._ensure_client_build: the client afterwards and the result
EnsureClientBuild(c) ==
    IF c # "none"
    THEN [client |-> c, ret |-> TRUE]
    ELSE [client |-> "open", ret |-> FALSE]

\* if not is_created and not self._client.is_closed: self._client.aclose()
CloseAdHoc(created, c) ==
    IF ~created /\ c # "closed" THEN "closed" ELSE c

FinallyIgnoresCreated(is_last_time, created, c) ==
    IF is_last_time /\ c # "closed" THEN "closed" ELSE c

\* the finally clause of arequest()
Finally(is_last_time, created, c) ==
    IF is_last_time /\ ~created /\ c # "closed" THEN "closed" ELSE c

\* the client after a try block of request()/arequest() is left through its
\* finally clause (request() has neither a client nor a finally clause)
LeaveTry(c) ==
    IF mode = "async" THEN Finally(IsLastTime(i, attempts), is_created, c)
    ELSE c

\* the top of "for i in range(max_retries)": dispatch attempt idx, or fall
\* out of the loop and return None
EnterLoop(idx, max_retries) ==
    IF idx < max_retries
    THEN /\ i' = idx
         /\ calls' = calls + 1
         /\ pc' = "call"
         /\ outcome' = NoOutcome
    ELSE /\ i' = idx
         /\ calls' = calls
         /\ pc' = "done"
         /\ outcome' = ReturnedNone

\* request() / arequest() up to its first transport call: the parameters
\* are assembled, arequest() makes sure of its client, the two messages are
\* logged, and the loop is entered
Start(m, http_method) ==
    LET p == BuildParams(options["s1"], heap, defaults, http_method)
        lg == LogBeforeDispatch(options["s1"], defaults, p)
    IN  /\ pc \in {"idle", "done"}
        /\ reqs < MaxRequests
        /\ reqs' = reqs + 1
        /\ mode' = m
        /\ method' = http_method
        /\ params' = lg.params
        /\ logged' = lg.snap
        /\ attempts' = EffectiveAttempts(options["s1"])
        /\ IF m = "async"
           THEN /\ client' = EnsureClientBuild(client).client
                /\ is_created' = EnsureClientBuild(client).ret
           ELSE /\ client' = client
                /\ is_created' = FALSE
        /\ sleeps' = 0
        /\ n5xx' = 0
        /\ nExc' = 0
        /\ lastOut' = NoOutcome
        /\ IF lg.raised
           THEN /\ i' = 0
                /\ calls' = 0
                /\ pc' = "done"
                /\ outcome' = Raised("TypeError")
           ELSE IF 0 < EffectiveAttempts(options["s1"])
                THEN /\ i' = 0
                     /\ calls' = 1
                     /\ pc' = "call"
                     /\ outcome' = NoOutcome
                ELSE /\ i' = 0
                     /\ calls' = 0
                     /\ pc' = "done"
                     /\ outcome' = ReturnedNone
        /\ UNCHANGED <<scoped, options, heap, prev, last, nCalls, called, evars>>

\* the try block from _format_response on, for a response of this status
AfterResponse(status) ==
    LET formatted_response == FormatResponse(status, IsLastTime(i, attempts))
    IN  IF formatted_response = None
        THEN /\ EnterLoop(i + 1, attempts)
             /\ client' = LeaveTry(client)
        ELSE /\ outcome' = Response(The(formatted_response))
             /\ pc' = "done"
             /\ client' = IF mode = "async"
                          THEN LeaveTry(CloseAdHoc(is_created, client))
                          ELSE client
             /\ UNCHANGED <<i, calls>>

\* the transport call returns a response
TransportResponds(status) ==
    /\ pc = "call"
    /\ ~(mode = "async" /\ client = "closed")
    /\ lastOut' = Response(status)
    /\ n5xx' = IF status >= 500 THEN n5xx + 1 ELSE n5xx
    /\ IF /\ status >= 500
          /\ ~IsLastTime(i, attempts)
          /\ options["s1"].retry_interval # None
       THEN /\ pc' = "sleep_5xx"
            /\ UNCHANGED <<i, calls, outcome, client>>
       ELSE AfterResponse(status)
    /\ UNCHANGED <<mode, attempts, is_created, scoped, sleeps, nExc, reqs,
                   options, heap, prev, last, nCalls, called>>
    /\ UNCHANGED <<avars, evars>>

\* the transport call raises; a closed client raises RuntimeError
TransportRaises(exc) ==
    /\ pc = "call"
    /\ IF mode = "async" /\ client = "closed"
       THEN exc = "RuntimeError"
       ELSE exc \in Failures
    /\ lastOut' = Raised(exc)
    /\ IF exc \in Retryable(mode)
       THEN /\ nExc' = nExc + 1
            /\ IF IsLastTime(i, attempts)
               THEN /\ outcome' = Raised(exc)
                    /\ pc' = "done"
                    /\ client' = IF mode = "async"
                                 THEN LeaveTry(CloseAdHoc(is_created, client))
                                 ELSE client
                    /\ UNCHANGED <<i, calls>>
               ELSE IF options["s1"].retry_interval # None
                    THEN /\ pc' = "sleep_exc"
                         /\ UNCHANGED <<i, calls, outcome, client>>
                    ELSE /\ EnterLoop(i + 1, attempts)
                         /\ client' = LeaveTry(client)
       ELSE /\ nExc' = nExc
            /\ outcome' = Raised(exc)
            /\ pc' = "done"
            /\ client' = LeaveTry(client)
            /\ UNCHANGED <<i, calls>>
    /\ UNCHANGED <<mode, attempts, is_created, scoped, sleeps, n5xx, reqs,
                   options, heap, prev, last, nCalls, called>>
    /\ UNCHANGED <<avars, evars>>

\* time.sleep / asyncio.sleep(retry_interval) returns
SleepDone ==
    /\ pc \in {"sleep_5xx", "sleep_exc"}
    /\ sleeps' = sleeps + 1
    /\ IF pc = "sleep_5xx"
       THEN AfterResponse(lastOut.status)
       ELSE /\ EnterLoop(i + 1, attempts)
            /\ client' = LeaveTry(client)
    /\ UNCHANGED <<mode, attempts, is_created, scoped, n5xx, nExc, lastOut,
                   reqs, options, heap, prev, last, nCalls, called>>
    /\ UNCHANGED <<avars, evars>>

\* the task running arequest() is cancelled while it is suspended
Cancel ==
    /\ mode = "async"
    /\ pc \in {"call", "sleep_5xx", "sleep_exc"}
    /\ outcome' = Raised("asyncio.CancelledError")
    /\ pc' = "done"
    /\ client' = LeaveTry(client)
    /\ UNCHANGED <<mode, i, attempts, is_created, scoped, calls, sleeps, n5xx,
                   nExc, lastOut, reqs, options, heap, prev, last, nCalls, called>>
    /\ UNCHANGED <<avars, evars>>

\* HttpSession.__aenter__
AEnter ==
    /\ pc \in {"idle", "done"}
    /\ ~scoped
    /\ scoped' = TRUE
    /\ client' = EnsureClientBuild(client).client
    /\ UNCHANGED <<pc, mode, i, attempts, is_created, calls, sleeps, n5xx,
                   nExc, lastOut, outcome, reqs, options, heap, prev, last,
                   nCalls, called>>
    /\ UNCHANGED <<avars, evars>>

\* HttpSession.__aexit__
AExit ==
    /\ pc \in {"idle", "done"}
    /\ scoped
    /\ scoped' = FALSE
    /\ client' = "closed"
    /\ UNCHANGED <<pc, mode, i, attempts, is_created, calls, sleeps, n5xx,
                   nExc, lastOut, outcome, reqs, options, heap, prev, last,
                   nCalls, called>>
    /\ UNCHANGED <<avars, evars>>

\* the caller sets the retry policy before the first request
ConfigureRetry(max_retries, retry_interval) ==
    /\ nCalls = 0
    /\ reqs = 0
    /\ Retry("s1", max_retries, retry_interval)

Modes == {"sync", "async"}

\* the methods of get() and post(); the loop does not look at the method
ReqMethods == {"GET", "POST"}

NextReq ==
    \/ \E m \in RetryCounts, ri \in Intervals : ConfigureRetry(m, ri)
    \/ \E m \in Modes, hm \in ReqMethods : Start(m, hm)
    \/ \E st \in Statuses : TransportResponds(st)
    \/ \E e \in Failures \cup {"RuntimeError"} : TransportRaises(e)
    \/ SleepDone
    \/ Cancel
    \/ AEnter
    \/ AExit

SpecReq == Init /\ [][NextReq]_vars

----------------------------------------------------------------------------
(* Properties of the retry-and-dispatch pipeline (SpecReq)                 *)

\* max_retries as the caller set it, 0 when unset
MaxRetriesOf == IF options["s1"].max_retries = None
                THEN 0
                ELSE The(options["s1"].max_retries)

Cancelled == outcome = Raised("asyncio.CancelledError")

\* C1: the request stops at the first response whose status is below 500:
\* once the transport has answered with such a status the request is over,
\* its result is a response with that status, and the transport calls made
\* are the 5xx responses and retryable failures before it plus this one
\* (503, 503, 200 with max_retries = 5: 3 calls, status 200; a 4xx or a
\* redirect on the first attempt: 1 call).
C1_StopsAtFirstNon5xx ==
    (lastOut.kind = "response" /\ lastOut.status < 500) =>
        /\ pc = "done"
        /\ outcome = Response(lastOut.status)
        /\ calls = n5xx + nExc + 1

C1_Witness ==
    /\ options["s1"].max_retries = Some(5)
    /\ pc = "done"
    /\ n5xx = 2
    /\ nExc = 0
    /\ calls = 3
    /\ lastOut = Response(200)
    /\ outcome = Response(200)

\* C2: when every attempt is answered with a status >= 500, the request
\* makes exactly max_retries + 1 transport calls and returns the last 5xx
\* response; nothing is raised.
C2_ExhaustionReturns5xx ==
    (pc = "done" /\ n5xx = calls /\ ~Cancelled) =>
        /\ calls = MaxRetriesOf + 1
        /\ lastOut.status >= 500
        /\ outcome = Response(lastOut.status)

C2_Witness ==
    /\ options["s1"].max_retries = Some(2)
    /\ pc = "done"
    /\ calls = 3
    /\ n5xx = 3
    /\ outcome = Response(503)

\* C3: when every attempt raises a retryable connectivity failure, the
\* request makes exactly max_retries + 1 transport calls and propagates the
\* failure of the final attempt, with its own kind.
C3_ExhaustionRaisesOriginal ==
    (pc = "done" /\ nExc = calls /\ ~Cancelled) =>
        /\ calls = MaxRetriesOf + 1
        /\ lastOut.exc \in RetryableSync \cup RetryableAsync
        /\ outcome = Raised(lastOut.exc)

C3_Witness ==
    /\ options["s1"].max_retries = Some(1)
    /\ pc = "done"
    /\ calls = 2
    /\ nExc = 2
    /\ outcome = Raised("httpx.ConnectTimeout")

\* C4: whatever mix of failures, 5xx responses and other responses the
\* transport produces, the request makes at most max_retries + 1 transport
\* calls (exactly 1 when max_retries is unset or 0) and ends with exactly
\* one outcome, a returned response (non-5xx, or the final 5xx on
\* exhaustion) or a propagated failure, never None; it has no outcome while
\* it is still calling the transport.
C4_OneOutcomeWithinBudget ==
    /\ calls <= MaxRetriesOf + 1
    /\ n5xx + nExc <= calls
    /\ (pc \in {"call", "sleep_5xx", "sleep_exc"}) => outcome = NoOutcome
    /\ (pc = "done") =>
          /\ outcome.kind \in {"response", "raise"}
          /\ (outcome.kind = "response" /\ outcome.status >= 500)
                => calls = MaxRetriesOf + 1
          /\ (MaxRetriesOf = 0) => calls = 1

C4_Witness ==
    /\ options["s1"].max_retries = Some(3)
    /\ pc = "done"
    /\ calls = 4
    /\ n5xx = 2
    /\ nExc = 2
    /\ outcome.kind = "response"

\* C5: a client that arequest() created ad hoc is closed when arequest()
\* has returned a response or propagated a failure of the transport.
C5_AdHocClientClosedOnExit ==
    (pc = "done" /\ mode = "async" /\ ~is_created /\ ~Cancelled) =>
        client = "closed"

\* C6: a client that arequest() created ad hoc is closed when a
\* cancellation has propagated out of arequest().
C6_AdHocClientClosedOnCancel ==
    (pc = "done" /\ mode = "async" /\ ~is_created /\ Cancelled) =>
        client = "closed"

----------------------------------------------------------------------------
(* Properties of the builder (SpecBuilder)                                 *)

\* the dict behind an Optional mapping field, empty when the field is unset
DictOf(field) == IF field = None THEN EmptyDict ELSE The(field)

\* the form in which add_query / add_form keep a value: a list or a dict
\* as its JSON text, anything else as it is
Stored(op, value) ==
    IF op \in {"add_query", "add_form"} /\ value.t \in {"list", "dict"}
    THEN Str(value.s)
    ELSE value

FieldOf(op) ==
    CASE op = "add_header" -> "headers"
      [] op = "add_cookie" -> "cookies"
      [] op = "add_query" -> "query"
      [] op = "add_form" -> "form"
      [] op = "add_file" -> "files"

\* the last call was add_header / add_cookie / add_query / add_form /
\* add_file with a name and a value, and it was not a no-op
EffectiveNameValueCall ==
    /\ last.op \in {"add_header", "add_cookie", "add_query", "add_form",
                    "add_file"}
    /\ last.arg = ""
    /\ last.value # PyNone
    /\ last.op \in {"add_header", "add_cookie"} => last.name # ""

\* C7: last write wins in the builder mappings: after an effective
\* add_header / add_cookie / add_query / add_form / add_file call the
\* mapping holds the value of that call under its name (a nested value of
\* add_query / add_form as its JSON text) and every entry under another
\* name is as it was before the call.
C7_LastWriteWins ==
    EffectiveNameValueCall =>
        LET before == DictOf(prev.o[FieldOf(last.op)])
            after == options[last.s][FieldOf(last.op)]
        IN  /\ after # None
            /\ DOMAIN The(after) = (DOMAIN before) \cup {last.name}
            /\ The(after)[last.name] = Stored(last.op, last.value)
            /\ \A n \in (DOMAIN before) \ {last.name} :
                   The(after)[n] = before[n]

C7_Witness ==
    /\ last.op = "add_header"
    /\ last.name = "x"
    /\ last.value = Str("b")
    /\ prev.o.headers = Some([n \in {"x"} |-> Str("a")])
    /\ options["s1"].headers = Some([n \in {"x"} |-> Str("b")])

\* C8: add_json merges: after add_json with a non-empty mapping the json
\* mapping of the session has the keys it had before and the keys of the
\* argument, a key of the argument holding the argument's value and every
\* other key the value it had; the first call creates the mapping.
C8_JsonMerges ==
    (last.op = "add_json" /\ last.arg \in Refs
        /\ prev.h[last.arg] # EmptyDict) =>
        LET before == DictOf(JsonOf(prev.o, prev.h))
            given == prev.h[last.arg]
            after == JsonOf(options[last.s], heap)
        IN  /\ after # None
            /\ DOMAIN The(after) = (DOMAIN before) \cup (DOMAIN given)
            /\ \A k \in DOMAIN given : The(after)[k] = given[k]
            /\ \A k \in (DOMAIN before) \ (DOMAIN given) :
                   The(after)[k] = before[k]

C8_Witness ==
    /\ last.op = "add_json"
    /\ last.arg = "d1"
    /\ prev.o.json = Some("d2")
    /\ JsonOf(options["s1"], heap) =
           Some([k \in {"a", "b"} |-> IF k = "a" THEN PyInt("1")
                                      ELSE PyInt("2")])

\* the last call had an absent argument
AbsentArgumentCall ==
    \/ /\ last.op \in {"add_header", "add_cookie"}
       /\ (last.name = "" \/ last.value = PyNone)
    \/ /\ last.op = "add_file"
       /\ last.value = PyNone
    \/ /\ last.op = "add_headers"
       /\ ItemsOf(last.arg) = <<>>
    \/ /\ last.op = "add_json"
       /\ (last.arg = "None" \/ (last.arg \in Refs /\ prev.h[last.arg] = EmptyDict))
    \/ /\ last.op = "add_content"
       /\ (last.value = PyNone \/ last.value = Str(""))

\* C9: a builder call with an absent argument leaves every option field,
\* and every dict, as it was; an empty-string value given to add_header /
\* add_cookie with a name is stored.
C9_AbsentArgumentIsNoOp ==
    /\ AbsentArgumentCall =>
          /\ options[last.s] = prev.o
          /\ heap = prev.h
          /\ ~last.raised
    /\ (last.op \in {"add_header", "add_cookie"} /\ last.name # ""
            /\ last.value = Str("")) =>
          /\ options[last.s][FieldOf(last.op)] # None
          /\ The(options[last.s][FieldOf(last.op)])[last.name] = Str("")

C9_Witness ==
    /\ last.op = "add_header"
    /\ last.name = ""
    /\ last.value = Str("a")
    /\ nCalls = 2
    /\ options["s1"].headers = None
    /\ options["s1"].files # None

\* the query / form mapping that the entries of a call give, from the
\* mapping before it: every entry whose value is not None is stored under
\* its key, a nested value as its JSON text
ItemsGive(op, before, items) ==
    LET eff == {j \in 1..Len(items) : items[j][2] # PyNone}
        keys == {items[j][1] : j \in eff}
        cur == DictOf(before)
    IN  IF eff = {}
        THEN before
        ELSE Some([n \in (DOMAIN cur) \cup keys |->
                     IF n \in keys
                     THEN Stored(op, items[CHOOSE j \in eff :
                                               items[j][1] = n][2])
                     ELSE cur[n]])

\* C10: the two call shapes of add_query and of add_form agree: a call
\* with a mapping and a call with one name and value both leave the mapping
\* determined in the same way by the entries given (the mapping's entries,
\* or the one name/value pair), and change no other field.
C10_DualShapeEquivalence ==
    (last.op \in {"add_query", "add_form"}) =>
        LET f == FieldOf(last.op)
            items == IF last.arg \in Dicts
                     THEN ItemsOf(last.arg)
                     ELSE << <<last.name, last.value>> >>
        IN  options[last.s] =
                [prev.o EXCEPT ![f] = ItemsGive(last.op, prev.o[f], items)]

C10_Witness ==
    /\ last.op = "add_query"
    /\ last.arg = "m2"
    /\ prev.o.query = Some([n \in {"x"} |-> PyInt("2")])
    /\ options["s1"].query =
           Some([n \in {"x", ""} |-> IF n = "x" THEN Str("[1]")
                                     ELSE Str("b")])

----------------------------------------------------------------------------
(* URL resolution (SpecUrl): a session is created with some url under some *)
(* base URL and a request is started on it.                                *)

Slashes(k) == [j \in 1..k |-> "/"]

\* 'v1/i', 'httpbin', 'ftp://b' and 'http://b'
PathBodies ==
    { <<"v", "1", "/", "i">>,
      <<"h", "t", "t", "p", "b", "i", "n">>,
      <<"f", "t", "p", ":", "/", "/", "b">>,
      <<"h", "t", "t", "p", ":", "/", "/", "b">> }

UrlInputs == {Slashes(k) \o b : k \in 0..MaxSlashes, b \in PathBodies}

\* no base URL, or 'https://a' followed by slashes
BaseInputs ==
    {None} \cup
    {Some(<<"h", "t", "t", "p", "s", ":", "/", "/", "a">> \o Slashes(k)) :
        k \in 0..MaxSlashes}

InitUrl ==
    \E u \in UrlInputs, b \in BaseInputs :
        InitWith(u, HttpDefaults(b), MaxCalls)

NextUrl == \E m \in Modes, hm \in Methods : Start(m, hm)

SpecUrl == InitUrl /\ [][NextUrl]_vars

\* the url begins with a scheme: letters followed by '://'
BeginsWithScheme(u) ==
    \E k \in 1..Len(u) :
        /\ k + 3 <= Len(u)
        /\ SubSeq(u, k + 1, k + 3) = <<":", "/", "/">>
        /\ \A j \in 1..k : u[j] \notin {":", "/", "\\"}

\* the number of slashes the url begins with / ends with
LeadingSlashes(u) ==
    CHOOSE k \in 0..Len(u) :
        /\ \A j \in 1..k : u[j] = "/"
        /\ k < Len(u) => u[k + 1] # "/"
TrailingSlashes(u) ==
    CHOOSE k \in 0..Len(u) :
        /\ \A j \in 1..k : u[Len(u) + 1 - j] = "/"
        /\ k < Len(u) => u[Len(u) - k] # "/"

\* C11: the url of the assembled parameters is the configured url itself
\* when that begins with a scheme, and otherwise, under a base URL, the base
\* without its trailing slashes, one '/', and the path without its leading
\* slashes.
C11_UrlResolution ==
    (pc # "idle") =>
        LET u == The(options["s1"].url)
            b == The(defaults.base_url)
        IN  IF BeginsWithScheme(u)
            THEN The(params.url) = u
            ELSE defaults.base_url # None =>
                   The(params.url) =
                       SubSeq(b, 1, Len(b) - TrailingSlashes(b)) \o <<"/">>
                         \o SubSeq(u, LeadingSlashes(u) + 1, Len(u))

----------------------------------------------------------------------------
(* Request assembly and logging (SpecAsm): a chain of builder calls on a   *)
(* session, then a request is started on it.                               *)

\* the builder calls that decide what is assembled and logged
AsmBuilder(s) ==
    \/ Verbose(s, FALSE)
    \/ \E t \in Timeouts : Timeout(s, t)
    \/ Redirects(s, FALSE)
    \/ \E n \in {"x", "Authorization", "AUTHORIZATION"} :
           AddHeader(s, n, Str("a"))
    \/ AddCookie(s, "x", Str("a"))
    \/ AddQuery(s, "x", PyInt("1"))
    \/ AddForm(s, "x", PyInt("1"))
    \/ \E f \in {PyFile("f1"), Str("a")} : AddFileCall(s, "x", f)
    \/ AddJsonCall(s, "d1")
    \/ AddContentCall(s, Str("body"))

InitAsm == InitWith(Url, HttpDefaults(None), MaxAsmCalls)

NextAsm ==
    \/ AsmBuilder("s1")
    \/ \E m \in Modes, hm \in Methods : Start(m, hm)

SpecAsm == InitAsm /\ [][NextAsm]_vars

----------------------------------------------------------------------------
(* Properties of request assembly and logging (SpecAsm)                    *)

\* the header name is 'Authorization' in some letter case
IsAuthorization(n) == n \in {"authorization", "Authorization", "AUTHORIZATION"}

\* the headers of the logged snapshot, empty when it has no 'headers' key
LoggedHeaders == DictOf(The(logged).headers)

\* C12: the logged parameter snapshot has no header named 'Authorization'
\* in any letter case and has every other header of the request, with its
\* value.
C12_Redaction ==
    (logged # None) =>
        /\ \A n \in DOMAIN LoggedHeaders : ~IsAuthorization(n)
        /\ \A n \in DOMAIN The(params.headers) :
               ~IsAuthorization(n) =>
                   /\ n \in DOMAIN LoggedHeaders
                   /\ LoggedHeaders[n] = The(params.headers)[n]

C12_Witness ==
    /\ logged # None
    /\ DOMAIN The(params.headers) = {"x", "AUTHORIZATION"}
    /\ The(logged).headers = Some([n \in {"x"} |-> Str("a")])

\* C13: a failure of logging does not change what the request does: a
\* request that is over has made a transport call, and what it gave its
\* caller is not an error raised while a log message was built.
C13_LoggingNeverAffectsOutcome ==
    (pc = "done") =>
        /\ calls >= 1
        /\ outcome # Raised("TypeError")

\* C20: the parameters assembled for GET and DELETE have no form data and
\* no files, and the request goes on to its transport call; for POST, PUT
\* and PATCH the form, the content and the files are there when set; the
\* json payload is there for every method when set; url, headers (empty
\* when unset), cookies, timeout, the redirect flag and the query
\* parameters are there for every method.
C20_AssemblyByMethod ==
    (pc = "call") =>
        LET o == options["s1"]
        IN  /\ method \in {"GET", "DELETE"} =>
                  /\ params.data = None
                  /\ params.files = None
            /\ method \in BodyMethods =>
                  /\ o.form # None => params.data = o.form
                  /\ o.content # None => params.content = o.content
                  /\ o.files # None => params.files = Some(o.files)
            /\ o.json # None => params.json = JsonOf(o, heap)
            /\ params.url # None
            /\ params.headers = Some(DictOf(o.headers))
            /\ params.cookies = Some(o.cookies)
            /\ params.timeout # None
            /\ params.follow_redirects = Some(o.redirects)
            /\ params.params = Some(DictOf(o.query))

\* C20, the other half for GET and DELETE: form data and files in the
\* options do not make the request fail before its transport call.
C20_Witness ==
    /\ pc = "call"
    /\ method = "GET"
    /\ options["s1"].form # None
    /\ options["s1"].files = Some([n \in {"x"} |-> PyFile("f1")])
    /\ options["s1"].json # None
    /\ params.data = None
    /\ params.files = None
    /\ params.json # None

----------------------------------------------------------------------------
(* HttpResponse and its json() (SpecResp)                                  *)

\* json() calls made on one HttpResponse
MaxJsonCalls == 3

\* the response bodies the transport delivers, as JSON text
Bodies == {"null", "{}", "{\"a\": 1}", "{\"a\": 2, \"b\": 2}", "[1]", "oops"}

\* httpx.Response.json(): json.loads of the body, anew at every call
JsonLoads(b) ==
    CASE b = "null" -> PyNone
      [] b = "[1]"  -> PyList
      [] b = "oops" -> [t |-> "JSONDecodeError", s |-> b]
      [] OTHER      -> [t |-> "dict", s |-> b]

\* HttpResponse.__init__
HttpResponseInit(status, b) ==
    /\ resp = NoResp
    /\ resp' = [status |-> status, body |-> b, json_result |-> None,
                parses |-> 0, returned |-> None, jsons |-> 0]
    /\ UNCHANGED <<bvars, avars, defaults, budget, tr, pc, mode, i, attempts,
                   is_created, client, scoped, calls, sleeps, n5xx, nExc,
                   lastOut, outcome, reqs>>

\* HttpResponse.json
Json ==
    /\ resp # NoResp
    /\ resp.jsons < MaxJsonCalls
    /\ resp' = [resp EXCEPT !.parses = @ + 1,
                            !.jsons = @ + 1,
                            !.returned = Some(JsonLoads(resp.body))]
    /\ UNCHANGED <<bvars, avars, defaults, budget, tr, pc, mode, i, attempts,
                   is_created, client, scoped, calls, sleeps, n5xx, nExc,
                   lastOut, outcome, reqs>>

NextResp ==
    \/ \E st \in Statuses, b \in Bodies : HttpResponseInit(st, b)
    \/ Json

SpecResp == Init /\ [][NextResp]_vars

\* C14: over the json() calls made on one HttpResponse the body is parsed
\* at most once, and a body that parses to null is returned as an empty
\* mapping.
C14_JsonParsedOnceAndCached ==
    /\ resp.parses <= 1
    /\ (resp.returned # None /\ resp.body = "null") =>
           The(resp.returned) = [t |-> "dict", s |-> "{}"]

----------------------------------------------------------------------------
(* Properties of the builder calls: errors and frame (SpecBuilder)         *)

\* C15: add_json with a non-empty argument that is not a mapping raises
\* TypeError in the call itself and leaves the options of the session and
\* the mappings they refer to as they were; the options never hold a json
\* value that is not a mapping, so nothing is left to fail at dispatch.
C15_AddJsonFailsAtCallSite ==
    /\ (last.op = "add_json" /\ last.arg = "list") =>
           /\ last.raised
           /\ options[last.s] = prev.o
           /\ heap = prev.h
    /\ \A s \in Sessions :
           options[s].json # None => The(options[s].json) \in Refs

C15_Witness ==
    /\ last.op = "add_json"
    /\ last.arg = "list"
    /\ last.raised
    /\ prev.o.json # None
    /\ JsonOf(options[last.s], heap) = JsonOf(prev.o, prev.h)

\* the option fields a configuration method is meant to set
Targets(op) ==
    CASE op = "timeout"     -> {"timeout"}
      [] op = "verbose"     -> {"verbose"}
      [] op = "redirects"   -> {"redirects"}
      [] op = "verify"      -> {"verify"}
      [] op = "retry"       -> {"max_retries", "retry_interval"}
      [] op = "add_header"  -> {"headers"}
      [] op = "add_headers" -> {"headers"}
      [] op = "add_cookie"  -> {"cookies"}
      [] op = "add_query"   -> {"query"}
      [] op = "add_form"    -> {"form"}
      [] op = "add_file"    -> {"files"}
      [] op = "add_json"    -> {"json"}
      [] op = "add_content" -> {"content"}
      [] OTHER              -> {}

\* the option fields targeted by the calls made so far on session s
Targeted(s) == UNION {Targets(op) : op \in called[s]}

\* C16: a configuration method that returns gives back the session it
\* was called on; it changes no option field other than the ones it
\* targets, and only add_json touches a caller's mapping; after any chain
\* of calls, every field no call targeted holds its default.
C16_FluentAndFrame ==
    /\ (last.s # "" /\ ~last.raised) => last.ret = last.s
    /\ last.s # "" =>
           /\ \A f \in (DOMAIN HttpOptions) \ Targets(last.op) :
                  options[last.s][f] = prev.o[f]
           /\ last.op # "add_json" => heap = prev.h
    /\ \A s \in Sessions :
           \A f \in (DOMAIN HttpOptions) \ Targeted(s) :
               options[s][f] = HttpSessionInit(Url)[f]

C16_Witness ==
    /\ called["s1"] = {"timeout", "add_header"}
    /\ last.op = "add_header"
    /\ last.value = PyNone
    /\ last.ret = "s1"
    /\ options["s1"] = [HttpSessionInit(Url) EXCEPT !.timeout = Some(10)]

----------------------------------------------------------------------------
(* Two sessions of one HttpClient, configured in turn (SpecIso)            *)

\* builder calls the caller makes on the two sessions together
MaxIsoCalls == 3

\* the builder calls on one of several sessions; the mappings handed to
\* add_headers, add_query and add_json are the caller's own, and the same
\* one may go to both sessions
IsoBuilder(s) ==
    \/ Timeout(s, 10)
    \/ AddHeader(s, "x", Str("a"))
    \/ \E d \in Dicts : AddHeadersCall(s, d)
    \/ \E d \in Dicts : AddQueryDict(s, d)
    \/ \E a \in Refs : AddJsonCall(s, a)

InitIso == InitWith(Url, HttpDefaults(None), MaxIsoCalls)

NextIso == \E s \in Sessions : IsoBuilder(s)

SpecIso == InitIso /\ [][NextIso]_vars

\* C17: a builder call on one session changes nothing that is seen
\* through another session: neither its option fields nor the contents of
\* its json mapping.
C17_SessionsIsolated ==
    last.s # "" =>
        \A t \in Sessions \ {last.s} :
            JsonOf(options[t], heap) = JsonOf(options[t], prev.h)

----------------------------------------------------------------------------
(* Properties of the retry loop: sleeps and the two modes (SpecReq)        *)

\* the sleeps a request owes after its transport calls so far
SleepsExpected ==
    IF options["s1"].retry_interval # None THEN calls - 1 ELSE 0

Sleeping == pc \in {"sleep_5xx", "sleep_exc"}

\* C18: the request sleeps only between attempts: a sleep follows an
\* attempt that is not the last and ended in a 5xx response or a failure
\* the mode retries, and only when retry_interval is set; at every
\* transport call and at the end of a request that made k calls, k - 1
\* sleeps are over when the interval is set and none when it is null.
C18_SleepsOnlyBetweenAttempts ==
    /\ (pc # "idle" /\ calls >= 1) => sleeps = SleepsExpected
    /\ Sleeping =>
           /\ options["s1"].retry_interval # None
           /\ ~IsLastTime(i, attempts)
           /\ lastOut.kind = "response" => lastOut.status >= 500
           /\ lastOut.kind = "raise" => lastOut.exc \in Retryable(mode)

C18_Witness ==
    /\ mode = "sync"
    /\ pc = "done"
    /\ options["s1"].max_retries = Some(2)
    /\ options["s1"].retry_interval = Some(3)
    /\ calls = 3
    /\ sleeps = 2
    /\ outcome = Response(503)

\* the failures both modes retry
CommonRetryable == RetryableSync \cap RetryableAsync

\* a transport outcome both modes can be compared on
CommonOutcome(out) ==
    \/ out.kind = "response"
    \/ out.kind = "raise" /\ out.exc \in CommonRetryable

\* the outcome calls for another attempt
AsksRetry(out) ==
    \/ out.kind = "response" /\ out.status >= 500
    \/ out.kind = "raise" /\ out.exc \in CommonRetryable

\* what either mode does when its transport call ends in out
RefTransport(out) ==
    IF ~AsksRetry(out) \/ i + 1 = attempts
    THEN /\ pc' = "done"
         /\ outcome' = out
         /\ calls' = calls
         /\ sleeps' = sleeps
    ELSE IF options["s1"].retry_interval # None
         THEN /\ pc' \in {"sleep_5xx", "sleep_exc"}
              /\ calls' = calls
              /\ sleeps' = sleeps
         ELSE /\ pc' = "call"
              /\ calls' = calls + 1
              /\ sleeps' = sleeps

\* what either mode does when its retry sleep is over
RefSleep ==
    /\ pc' = "call"
    /\ calls' = calls + 1
    /\ sleeps' = sleeps + 1

----------------------------------------------------------------------------
(* Timeout resolution and the effect of logging on dispatch (SpecAsm)      *)

\* C21: the timeout of the assembled parameters is the value given to
\* timeout(t) whenever one was set, whatever the value, and the timeout of
\* the defaults only when none was set.
C21_TimeoutResolution ==
    (pc = "call") =>
        params.timeout =
            Some(IF options["s1"].timeout # None
                 THEN The(options["s1"].timeout)
                 ELSE defaults.timeout)

\* C26: logging does not alter what is dispatched: with or without a
\* logged snapshot, the parameters of the transport call are the ones
\* _build_params assembles from the options, and every header of the
\* options, Authorization included, is in them with its value.
C26_LoggingLeavesDispatchAlone ==
    (pc = "call") =>
        /\ params = BuildParams(options["s1"], heap, defaults, method)
        /\ \A n \in DOMAIN DictOf(options["s1"].headers) :
               /\ n \in DOMAIN The(params.headers)
               /\ The(params.headers)[n] = DictOf(options["s1"].headers)[n]

C26_Witness ==
    /\ pc = "call"
    /\ logged # None
    /\ "Authorization" \notin DOMAIN LoggedHeaders
    /\ "Authorization" \in DOMAIN The(params.headers)
    /\ The(params.headers)["Authorization"] = Str("a")

----------------------------------------------------------------------------
(* Properties of the client of arequest() (SpecReq)                        *)

\* C22: inside an "async with session:" block no step changes the client:
\* arequest() closes it on none of its exit paths; a client built on
\* entering the block is open, so every request in the block runs on that
\* same open client; leaving the block closes it.
C22_ScopedClientNotClosedByRequest ==
    [][ /\ (scoped /\ scoped') => client' = client
        /\ (~scoped /\ scoped' /\ client = "none") => client' = "open"
        /\ (scoped /\ ~scoped') => client' = "closed"
      ]_vars

C22_Witness ==
    /\ scoped
    /\ client = "open"
    /\ mode = "async"
    /\ is_created
    /\ reqs = 2
    /\ pc = "done"
    /\ outcome = Raised("httpx.ConnectError")

\* requests on a session that is never used as a scoped resource
NextAdHoc ==
    \/ \E m \in RetryCounts, ri \in Intervals : ConfigureRetry(m, ri)
    \/ \E m \in Modes, hm \in ReqMethods : Start(m, hm)
    \/ \E st \in Statuses : TransportResponds(st)
    \/ \E e \in Failures \cup {"RuntimeError"} : TransportRaises(e)
    \/ SleepDone
    \/ Cancel

SpecAdHoc == Init /\ [][NextAdHoc]_vars

\* C25: every transport call of arequest() is made on an open client,
\* also when earlier requests on the session built and closed their own.
C25_DispatchOnOpenClient ==
    (pc = "call" /\ mode = "async") => client = "open"

----------------------------------------------------------------------------
(* trace_decorator.instrument: calls of wrapped functions (SpecTrace).     *)
(* A TracerProvider with a span processor is installed, as the tests do in *)
(* setup_class, so the spans the tracer starts are recording spans.        *)

\* wrapped calls nested in one another
MaxDepth == 2
\* spans started in one behaviour
MaxSpans == 2

\* every variable of the HTTP client
httpvars == <<bvars, avars, defaults, resp, budget, pc, mode, i, attempts,
              is_created, client, scoped, calls, sleeps, n5xx, nExc, lastOut,
              outcome, reqs>>

\* the wrapped functions: def f(self), def f(self, _span) and
\* def f(self, **kwargs)
Signatures == {"plain", "span_param", "kwargs"}

\* the names in inspect.signature(raw_func).parameters
Parameters(sig) ==
    CASE sig = "plain"      -> {"self"}
      [] sig = "span_param" -> {"self", "_span"}
      [] sig = "kwargs"     -> {"self", "kwargs"}

\* instrument.decorator._check_func_args_has_span
CheckFuncArgsHasSpan(sig) == "_span" \in Parameters(sig)

\* what the body of a wrapped function does: it returns a value or raises
\* an exception
BodyOutcomes ==
    [kind : {"return"}, value : {"r1", "r2"}]
        \cup [kind : {"raise"}, value : {"Exception", "ValueError"}]

\* instrument.decorator._set_semantic_attributes
SemanticAttributes ==
    {"code.namespace", "code.function", "code.filepath", "code.lineno"}

\* the span tracer.start_as_current_span starts: recording, not ended
NewSpan == [ended |-> 0, delivered |-> 0, events |-> 0, attrs |-> {}]

UseSpanExitLeavesOpenOnRaise(sp, raised, record_exception) ==
    IF raised
    THEN [sp EXCEPT !.events = IF record_exception THEN @ + 1 ELSE @]
    ELSE [sp EXCEPT !.ended = @ + 1,
                    !.delivered = IF sp.ended = 0 THEN @ + 1 ELSE @]

\* leaving "with tracer.start_as_current_span(...)": an exception is
\* recorded as an event when record_exception is set, and the span is
\* ended, which hands it to the span processor (on_end) the first time
UseSpanExit(sp, raised, record_exception) ==
    [sp EXCEPT !.events = IF raised /\ record_exception THEN @ + 1 ELSE @,
               !.ended = @ + 1,
               !.delivered = IF sp.ended = 0 THEN @ + 1 ELSE @]

Pop(seq) == SubSeq(seq, 1, Len(seq) - 1)

\* sync_wrapper / async_wrapper up to the call of func: the span is started
\* and made current, the semantic attributes are set, and func is called
\* with _span=span or without it
WrapperEnter(sig, is_async, inject_span, record_exception) ==
    LET span == Len(tr.spans) + 1
    IN  /\ Len(tr.frames) < MaxDepth
        /\ Len(tr.spans) < MaxSpans
        /\ tr' = [frames |-> Append(tr.frames,
                      [sig |-> sig, is_async |-> is_async,
                       inject_span |-> inject_span,
                       record_exception |-> record_exception,
                       span |-> span,
                       got |-> IF inject_span /\ CheckFuncArgsHasSpan(sig)
                               THEN Some(span)
                               ELSE None]),
                  ctx |-> Append(tr.ctx, span),
                  spans |-> Append(tr.spans,
                      [NewSpan EXCEPT !.attrs = SemanticAttributes]),
                  body |-> None,
                  result |-> None]
        /\ UNCHANGED httpvars

\* sync_wrapper / async_wrapper from the end of func on: an Exception sets
\* the attribute "Exception" and is raised again, the with block is left,
\* and the result is returned
WrapperExit(out) ==
    /\ tr.frames # <<>>
    /\ LET f == tr.frames[Len(tr.frames)]
           raised == out.kind = "raise"
           sp == IF raised
                 THEN [tr.spans[f.span] EXCEPT !.attrs = @ \cup {"Exception"}]
                 ELSE tr.spans[f.span]
       IN  tr' = [frames |-> Pop(tr.frames),
                  ctx |-> Pop(tr.ctx),
                  spans |-> [tr.spans EXCEPT ![f.span] =
                                UseSpanExit(sp, raised, f.record_exception)],
                  body |-> Some(out),
                  result |-> Some(out)]
    /\ UNCHANGED httpvars

NextTrace ==
    \/ \E sig \in Signatures, a \in BOOLEAN, inj \in BOOLEAN, rec \in BOOLEAN :
           WrapperEnter(sig, a, inj, rec)
    \/ \E out \in BodyOutcomes : WrapperExit(out)

SpecTrace == Init /\ [][NextTrace]_vars

\* the spans that are current somewhere in the context
InContext == {tr.ctx[k] : k \in 1..Len(tr.ctx)}

\* C23: while the body of a wrapped function runs, its span is the current
\* span and has not ended; what the wrapper gives its caller is what the
\* body returned or raised; a span whose call is over has ended once and
\* was delivered once to the span processor, also when the body raised;
\* outside every wrapped call no span is current.
C23_SpanAroundCall ==
    /\ Len(tr.ctx) = Len(tr.frames)
    /\ \A k \in 1..Len(tr.frames) :
           /\ tr.ctx[k] = tr.frames[k].span
           /\ tr.spans[tr.frames[k].span].ended = 0
    /\ \A id \in 1..Len(tr.spans) :
           id \notin InContext =>
               /\ tr.spans[id].ended = 1
               /\ tr.spans[id].delivered = 1
    /\ tr.result # None => tr.result = tr.body
    /\ tr.frames = <<>> => tr.ctx = <<>>

C23_Witness ==
    /\ tr.frames = <<>>
    /\ tr.ctx = <<>>
    /\ Len(tr.spans) = 1
    /\ tr.result = Some([kind |-> "raise", value |-> "Exception"])
    /\ tr.spans[1].ended = 1
    /\ tr.spans[1].delivered = 1
    /\ "Exception" \in tr.spans[1].attrs

\* the function can take a keyword argument named _span
AcceptsSpanKeyword(sig) == sig \in {"span_param", "kwargs"}

\* C24: with inject_span=True a wrapped function that can take the keyword
\* _span, by a parameter of that name or through **kwargs, is called with
\* _span set to the active span; with inject_span=False it is called
\* without _span.
C24_SpanInjected ==
    \A k \in 1..Len(tr.frames) :
        LET f == tr.frames[k]
        IN  /\ (f.inject_span /\ AcceptsSpanKeyword(f.sig)) =>
                   f.got = Some(f.span)
            /\ ~f.inject_span => f.got = None

====
